---- MODULE Spec2Model ----
(***************************************************************************)
(* Annual modulation predictor (AMP): the three source variants            *)
(* ddic_amp_v1.py, ddic_amp_v2.py and AMP_2026_Predictor.py.                *)
(*                                                                         *)
(* Each variant is a class AnnualModulationPredictor with a constructor    *)
(* and three methods.  The model keeps one instance of each variant, an    *)
(* input date string, an input density, and what the calls on them         *)
(* returned.                                                               *)
(*                                                                         *)
(* Python floats are modelled as decimal fixed-point numbers: the integer  *)
(* n stands for n / Scale, and every multiplication and division rounds    *)
(* to the nearest representable value, ties to even, sign and magnitude    *)
(* apart, as IEEE 754 does.  Python ints stay exact integers.              *)
(***************************************************************************)
EXTENDS Integers, Sequences, FiniteSets

\* ------------------------------------------------------------------------
\* Bounds of the model

\* Units per 1.0 of a modelled float.
Scale == 10000

\* The input years are DefaultYear - YearsBack .. DefaultYear.
YearsBack == 2

\* ------------------------------------------------------------------------
\* Floats

Abs(a) == IF a < 0 THEN 0 - a ELSE a

Sign(a) == IF a < 0 THEN 0 - 1 ELSE 1

\* n / d for n >= 0, d > 0, rounded to the nearest integer, ties to even.
RoundDiv(n, d) ==
    LET q == n \div d
        r == n % d
    IN  IF 2 * r > d \/ (2 * r = d /\ q % 2 = 1) THEN q + 1 ELSE q

\* float(n) of a Python int.
FromInt(n) == n * Scale

Max2(a, b) == IF a >= b THEN a ELSE b

Min2(a, b) == IF a <= b THEN a ELSE b

\* float * float.  The larger magnitude is split into its whole and its
\* fractional part, which keeps the intermediate products in range.
FMul(a, b) ==
    LET hi == Max2(Abs(a), Abs(b))
        lo == Min2(Abs(a), Abs(b))
    IN  Sign(a) * Sign(b) * ((hi \div Scale) * lo + RoundDiv((hi % Scale) * lo, Scale))

\* float / float, b # 0.
FDiv(a, b) ==
    LET n == Abs(a)
        d == Abs(b)
    IN  Sign(a) * Sign(b) * ((n \div d) * Scale + RoundDiv((n % d) * Scale, d))

\* int / int: Python's true division of two ints gives a float.
IntTrueDiv(n, d) == Sign(n) * Sign(d) * RoundDiv(Abs(n) * Scale, Abs(d))

\* e^(-u) for 0 <= u <= 1/8 by its Taylor polynomial of degree 4.
ExpTaylor(u) ==
    LET u2 == FMul(u, u)
        u3 == FMul(u2, u)
        u4 == FMul(u3, u)
    IN  Scale - u + RoundDiv(u2, 2) - RoundDiv(u3, 6) + RoundDiv(u4, 24)

\* e^(-t) for t >= 0: e^(-t) = (e^(-t/2))^2, times e^(-1/Scale) when the
\* halving dropped a unit.
RECURSIVE ExpNeg(_)
ExpNeg(t) ==
    IF 8 * t <= Scale
    THEN ExpTaylor(t)
    ELSE LET h  == ExpNeg(t \div 2)
             sq == FMul(h, h)
         IN  IF t % 2 = 1 THEN FMul(sq, Scale - 1) ELSE sq

\* np.exp(x).  The code calls it only on -0.5 * (a square), so on x <= 0;
\* for x > 0 it is 1 / e^(-x).
np_exp(x) == IF x <= 0 THEN ExpNeg(0 - x) ELSE FDiv(Scale, ExpNeg(x))

\* The least x at which binary64 tanh(x) is exactly 1.0: 1 - tanh(x) is
\* about 2 e^(-2x), which falls under half an ulp (2^-54) at
\* x = 55 ln(2) / 2 = 19.0615...
TanhOne == (190616 * Scale) \div 10000

\* np.tanh(x) = (1 - e^(-2x)) / (1 + e^(-2x)) for x >= 0, odd in x.  The
\* result is exactly 1.0 from TanhOne on and stays under 1.0 before it, as
\* in binary64; the coarser fixed-point grid alone would round to 1.0
\* earlier.
np_tanh(x) ==
    LET a == Abs(x)
        e == ExpNeg(2 * a)
        t == IF a >= TanhOne
             THEN Scale
             ELSE Min2(FDiv(Scale - e, Scale + e), Scale - 1)
    IN  Sign(x) * t

\* ------------------------------------------------------------------------
\* Strings, dates and datetime.strptime(date_str, '%Y-%m-%d')

\* A Python str is the sequence of its characters.
Digits == <<"0", "1", "2", "3", "4", "5", "6", "7", "8", "9">>

IsDigit(c) == \E i \in 1..10 : Digits[i] = c

DigitValue(c) == (CHOOSE i \in 1..10 : Digits[i] = c) - 1

\* int() of a run of digits.
RECURSIVE ToInt(_)
ToInt(f) ==
    IF f = <<>> THEN 0
    ELSE 10 * ToInt(SubSeq(f, 1, Len(f) - 1)) + DigitValue(f[Len(f)])

\* %Y: \d\d\d\d
MatchesY(f) == Len(f) = 4 /\ \A i \in 1..4 : IsDigit(f[i])

\* %m: 1[0-2]|0[1-9]|[1-9]
MatchesM(f) ==
    \/ Len(f) = 2 /\ f[1] = "1" /\ f[2] \in {"0", "1", "2"}
    \/ Len(f) = 2 /\ f[1] = "0" /\ IsDigit(f[2]) /\ f[2] # "0"
    \/ Len(f) = 1 /\ IsDigit(f[1]) /\ f[1] # "0"

\* %d: 3[0-1]|[1-2]\d|0[1-9]|[1-9]| [1-9]
MatchesD(f) ==
    \/ Len(f) = 2 /\ f[1] = "3" /\ f[2] \in {"0", "1"}
    \/ Len(f) = 2 /\ f[1] \in {"1", "2"} /\ IsDigit(f[2])
    \/ Len(f) = 2 /\ f[1] \in {"0", " "} /\ IsDigit(f[2]) /\ f[2] # "0"
    \/ Len(f) = 1 /\ IsDigit(f[1]) /\ f[1] # "0"

\* The digits of a %d field, its leading blank dropped.
DayDigits(f) == IF f[1] = " " THEN SubSeq(f, 2, Len(f)) ELSE f

IsLeap(y) == y % 4 = 0 /\ (y % 100 # 0 \/ y % 400 = 0)

DaysInMonth(y, m) ==
    IF m = 2 THEN (IF IsLeap(y) THEN 29 ELSE 28)
    ELSE IF m \in {4, 6, 9, 11} THEN 30 ELSE 31

RECURSIVE DaysBeforeMonth(_, _)
DaysBeforeMonth(y, m) ==
    IF m = 1 THEN 0 ELSE DaysBeforeMonth(y, m - 1) + DaysInMonth(y, m - 1)

\* date_obj.timetuple().tm_yday
tm_yday(date_obj) ==
    DaysBeforeMonth(date_obj.year, date_obj.month) + date_obj.day

ValueError == [raised |-> TRUE, exc |-> "ValueError"]

\* The format's regular expression has to match the whole string: the three
\* fields hold no "-", so the string is its fields put around exactly two
\* "-".  Then the date has to exist: year >= 1, day within the month.
strptime(date_str) ==
    LET dashes == {i \in 1..Len(date_str) : date_str[i] = "-"}
    IN  IF Cardinality(dashes) # 2 THEN ValueError
        ELSE LET i1 == CHOOSE i \in dashes : \A j \in dashes : i <= j
                 i2 == CHOOSE i \in dashes : \A j \in dashes : i >= j
                 fY == SubSeq(date_str, 1, i1 - 1)
                 fm == SubSeq(date_str, i1 + 1, i2 - 1)
                 fd == SubSeq(date_str, i2 + 1, Len(date_str))
             IN  IF ~(MatchesY(fY) /\ MatchesM(fm) /\ MatchesD(fd))
                 THEN ValueError
                 ELSE LET y == ToInt(fY)
                          m == ToInt(fm)
                          d == ToInt(DayDigits(fd))
                      IN  IF y < 1 \/ d > DaysInMonth(y, m)
                          THEN ValueError
                          ELSE [raised |-> FALSE,
                                value  |-> [year |-> y, month |-> m, day |-> d]]

\* ------------------------------------------------------------------------
\* Python values

\* A float literal num/den, such as 8.5 = Literal(85, 10).
Literal(num, den) == RoundDiv(num * Scale, den)

\* An optional int is the set of its values: None is empty.
None == {}

Some(y) == {y}

\* a != b for an int a and an optional int b.
NotEqual(a, b) == Some(a) # b

\* What predict_relative_signal_rate hands back.  A call that computes
\* records the methods it called, in order, and their results.
Number(rate, density, prob) ==
    [tag |-> "number", rate |-> rate, local_density |-> density,
     transition_prob |-> prob,
     called |-> <<"get_relative_density_at_date",
                  "get_phase_transition_probability">>]

Warning(text, year) ==
    [tag |-> "warning", key |-> "warning", text |-> text, year |-> year,
     called |-> <<>>]

Error(text) ==
    [tag |-> "error", key |-> "error", text |-> text, called |-> <<>>]

Raised(exc) == [tag |-> "raised", exc |-> exc, called |-> <<>>]

\* ------------------------------------------------------------------------
\* ddic_amp_v1.py

v1_init ==
    [filament_peak_day_of_year  |-> 155,
     filament_width_days        |-> 15,
     density_enhancement_factor |-> Literal(85, 10),
     rho_crit_normalized        |-> Literal(50, 10),
     k_factor                   |-> Literal(25, 10)]

\* A faulty density: the day of the year counted from 0, as tm_yday - 1.
\* The profile is then centred a day late.
v1_density_zero_based_day(self, date_obj) ==
    LET day_of_year == tm_yday(date_obj) - 1
        q == IntTrueDiv(day_of_year - self.filament_peak_day_of_year,
                        self.filament_width_days)
        exponent == FMul(0 - Literal(5, 10), FMul(q, q))
    IN  FromInt(1)
          + FMul(self.density_enhancement_factor - FromInt(1), np_exp(exponent))

v1_get_relative_density_at_date(self, date_obj) ==
    LET day_of_year == tm_yday(date_obj)
        q == IntTrueDiv(day_of_year - self.filament_peak_day_of_year,
                        self.filament_width_days)
        exponent == FMul(0 - Literal(5, 10), FMul(q, q))
    IN  FromInt(1)
          + FMul(self.density_enhancement_factor - FromInt(1), np_exp(exponent))

\* A faulty probability: arg = k * density / rho_crit, the "- 1" left out.
v1_probability_without_offset(self, density) ==
    IF density < self.rho_crit_normalized
    THEN 0
    ELSE LET arg == FMul(self.k_factor,
                         FDiv(density, self.rho_crit_normalized))
         IN  np_tanh(arg)

v1_get_phase_transition_probability(self, density) ==
    IF density < self.rho_crit_normalized
    THEN 0
    ELSE LET arg == FMul(self.k_factor,
                         FDiv(density, self.rho_crit_normalized) - FromInt(1))
         IN  np_tanh(arg)

v1_predict_relative_signal_rate(self, date_str) ==
    LET parsed == strptime(date_str)
    IN  IF parsed.raised
        THEN IF parsed.exc = "ValueError"
             THEN Error("Invalid date format. Use 'YYYY-MM-DD'.")
             ELSE Raised(parsed.exc)
        ELSE LET input_date == parsed.value
                 local_density ==
                     v1_get_relative_density_at_date(self, input_date)
                 transition_prob ==
                     v1_get_phase_transition_probability(self, local_density)
                 signal_rate == Literal(1, 1) + 100 * transition_prob
             IN  Number(signal_rate, local_density, transition_prob)

\* ------------------------------------------------------------------------
\* ddic_amp_v2.py

v2_init(year) ==
    [target_year                |-> year,
     filament_peak_day_of_year  |-> 155,
     filament_width_days        |-> 15,
     density_enhancement_factor |-> Literal(85, 10),
     rho_crit_normalized        |-> Literal(50, 10),
     k_factor                   |-> Literal(25, 10)]

\* A faulty density: enhancement * exp(exponent), the baseline 1 left out.
v2_density_without_baseline(self, date_obj) ==
    LET day_of_year == tm_yday(date_obj)
        q == IntTrueDiv(day_of_year - self.filament_peak_day_of_year,
                        self.filament_width_days)
        exponent == FMul(0 - Literal(5, 10), FMul(q, q))
    IN  FMul(self.density_enhancement_factor, np_exp(exponent))

v2_get_relative_density_at_date(self, date_obj) ==
    LET day_of_year == tm_yday(date_obj)
        q == IntTrueDiv(day_of_year - self.filament_peak_day_of_year,
                        self.filament_width_days)
        exponent == FMul(0 - Literal(5, 10), FMul(q, q))
    IN  FromInt(1)
          + FMul(self.density_enhancement_factor - FromInt(1), np_exp(exponent))

\* A faulty probability: the tanh taken below the critical density too.
v2_probability_without_threshold(self, density) ==
    LET arg == FMul(self.k_factor,
                    FDiv(density, self.rho_crit_normalized) - FromInt(1))
    IN  np_tanh(arg)

v2_get_phase_transition_probability(self, density) ==
    IF density < self.rho_crit_normalized
    THEN 0
    ELSE LET arg == FMul(self.k_factor,
                         FDiv(density, self.rho_crit_normalized) - FromInt(1))
         IN  np_tanh(arg)

\* A faulty predict: no except clause, the ValueError leaves the method.
v2_predict_without_except(self, date_str) ==
    LET parsed == strptime(date_str)
    IN  IF parsed.raised
        THEN Raised(parsed.exc)
        ELSE LET input_date == parsed.value
             IN  IF NotEqual(input_date.year, self.target_year)
                 THEN Warning("This predictor is calibrated for {}.",
                              self.target_year)
                 ELSE LET local_density ==
                              v2_get_relative_density_at_date(self, input_date)
                          transition_prob ==
                              v2_get_phase_transition_probability(self, local_density)
                          signal_rate == Literal(1, 1) + 100 * transition_prob
                      IN  Number(signal_rate, local_density, transition_prob)

\* A faulty predict: the year is looked at only after the rate is computed.
v2_predict_year_check_last(self, date_str) ==
    LET parsed == strptime(date_str)
    IN  IF parsed.raised
        THEN Error("Invalid date format. Use 'YYYY-MM-DD'.")
        ELSE LET input_date == parsed.value
                 local_density ==
                     v2_get_relative_density_at_date(self, input_date)
                 transition_prob ==
                     v2_get_phase_transition_probability(self, local_density)
                 signal_rate == Literal(1, 1) + 100 * transition_prob
                 computed == Number(signal_rate, local_density, transition_prob)
             IN  IF NotEqual(input_date.year, self.target_year)
                 THEN [Warning("This predictor is calibrated for {}.",
                               self.target_year)
                          EXCEPT !.called = computed.called]
                 ELSE computed

v2_predict_relative_signal_rate(self, date_str) ==
    LET parsed == strptime(date_str)
    IN  IF parsed.raised
        THEN IF parsed.exc = "ValueError"
             THEN Error("Invalid date format. Use 'YYYY-MM-DD'.")
             ELSE Raised(parsed.exc)
        ELSE LET input_date == parsed.value
             IN  IF NotEqual(input_date.year, self.target_year)
                 THEN Warning("This predictor is calibrated for {}.",
                              self.target_year)
                 ELSE LET local_density ==
                              v2_get_relative_density_at_date(self, input_date)
                          transition_prob ==
                              v2_get_phase_transition_probability(self, local_density)
                          signal_rate == Literal(1, 1) + 100 * transition_prob
                      IN  Number(signal_rate, local_density, transition_prob)

\* ------------------------------------------------------------------------
\* AMP_2026_Predictor.py
\* The same class with Spanish message texts, written here without their
\* accents.

amp_init(year) ==
    [target_year                |-> year,
     filament_peak_day_of_year  |-> 155,
     filament_width_days        |-> 15,
     density_enhancement_factor |-> Literal(85, 10),
     rho_crit_normalized        |-> Literal(50, 10),
     k_factor                   |-> Literal(25, 10)]

amp_get_relative_density_at_date(self, date_obj) ==
    LET day_of_year == tm_yday(date_obj)
        q == IntTrueDiv(day_of_year - self.filament_peak_day_of_year,
                        self.filament_width_days)
        exponent == FMul(0 - Literal(5, 10), FMul(q, q))
    IN  FromInt(1)
          + FMul(self.density_enhancement_factor - FromInt(1), np_exp(exponent))

amp_get_phase_transition_probability(self, density) ==
    IF density < self.rho_crit_normalized
    THEN 0
    ELSE LET arg == FMul(self.k_factor,
                         FDiv(density, self.rho_crit_normalized) - FromInt(1))
         IN  np_tanh(arg)

\* A faulty predict: the year test turned around, == for !=.
amp_predict_year_test_inverted(self, date_str) ==
    LET parsed == strptime(date_str)
    IN  IF parsed.raised
        THEN Error("Formato de fecha invalido. Use 'YYYY-MM-DD'.")
        ELSE LET input_date == parsed.value
             IN  IF ~NotEqual(input_date.year, self.target_year)
                 THEN Warning("Este predictor esta calibrado para {}.",
                              self.target_year)
                 ELSE LET local_density ==
                              amp_get_relative_density_at_date(self, input_date)
                          transition_prob ==
                              amp_get_phase_transition_probability(self, local_density)
                          signal_rate == Literal(1, 1) + 100 * transition_prob
                      IN  Number(signal_rate, local_density, transition_prob)

amp_predict_relative_signal_rate(self, date_str) ==
    LET parsed == strptime(date_str)
    IN  IF parsed.raised
        THEN IF parsed.exc = "ValueError"
             THEN Error("Formato de fecha invalido. Use 'YYYY-MM-DD'.")
             ELSE Raised(parsed.exc)
        ELSE LET input_date == parsed.value
             IN  IF NotEqual(input_date.year, self.target_year)
                 THEN Warning("Este predictor esta calibrado para {}.",
                              self.target_year)
                 ELSE LET local_density ==
                              amp_get_relative_density_at_date(self, input_date)
                          transition_prob ==
                              amp_get_phase_transition_probability(self, local_density)
                          signal_rate == Literal(1, 1) + 100 * transition_prob
                      IN  Number(signal_rate, local_density, transition_prob)

\* ------------------------------------------------------------------------
\* Inputs

\* year=2026 in the constructors of ddic_amp_v2.py and AMP_2026_Predictor.py
DefaultYear == 2026

Years == (DefaultYear - YearsBack)..DefaultYear

\* The year argument of a constructor call; leaving it out is DefaultYear.
YearArgs == {None} \cup {Some(y) : y \in Years}

\* '%02d' % n and '%04d' % n
Pad2(n) == <<Digits[((n \div 10) % 10) + 1], Digits[(n % 10) + 1]>>

Pad4(n) == Pad2(n \div 100) \o Pad2(n % 100)

IsoFormat(y, m, d) == Pad4(y) \o <<"-">> \o Pad2(m) \o <<"-">> \o Pad2(d)

\* Strings that are not of the form dddd-dd-dd, or are so only nearly.
OtherStrings ==
    { <<>>,
      <<"n", "o", "t", "-", "a", "-", "d", "a", "t", "e">>,
      <<"2", "0", "2", "6", "-", "1", "3", "-", "4", "5">>,
      <<"2", "0", "2", "5", "-", "1", "3", "-", "4", "5">>,
      <<"2", "0", "2", "6", "-", "6", "-", "4">>,
      <<"2", "0", "2", "6", "-", "0", "6", "-", " ", "4">>,
      <<"2", "0", "2", "6", "-", "0", "6", "-", "0", "4", "x">>,
      <<" ", "2", "0", "2", "6", "-", "0", "6", "-", "0", "4">>,
      <<"2", "0", "2", "6", "/", "0", "6", "/", "0", "4">>,
      <<"2", "0", "2", "6", "-", "0", "6">>,
      <<"2", "0", "2", "6", "-", "-", "0", "6", "-", "0", "4">>,
      <<"2", "6", "-", "0", "6", "-", "0", "4">>,
      <<"0", "0", "0", "0", "-", "0", "1", "-", "0", "1">> }

\* Every year-month-day triple around the calendar, the impossible months
\* 0 and 13 and days 0 and 32 included.
DateStrings ==
    {IsoFormat(y, m, d) : y \in Years, m \in 0..13, d \in 0..32} \cup OtherStrings

\* The date of the usage examples: "2026-06-04".
ExampleDate == IsoFormat(DefaultYear, 6, 4)

\* Densities below, at and above the critical density 5.0, down to one unit
\* of the grid from it, and far beyond what a date can give.
Densities ==
    { 0 - FromInt(1), 0, FromInt(1), Literal(49, 10),
      FromInt(5) - 1, FromInt(5), FromInt(5) + 1, Literal(51, 10),
      Literal(85, 10), FromInt(20), FromInt(43), FromInt(44), FromInt(50),
      FromInt(1000) }

\* ------------------------------------------------------------------------
\* State

VARIABLES
    year_arg,    \* the year the constructors were called with
    predictor,   \* the three AnnualModulationPredictor instances
    date_str,    \* the date string under test
    density_in,  \* the density under test
    ret          \* the last call: its method, its variant, what it returned

vars == <<year_arg, predictor, date_str, density_in, ret>>

Variants == {"v1", "v2", "amp"}

NoCall == [method |-> "none"]

\* AnnualModulationPredictor() or AnnualModulationPredictor(year)
Construct(v, year) ==
    IF v = "v1" THEN v1_init
    ELSE IF v = "v2" THEN v2_init(year)
    ELSE amp_init(year)

\* The three instances are constructed, the two that take a year with the
\* same one, and an input is chosen: a date string, or a density.
Init ==
    /\ year_arg \in YearArgs
    /\ predictor = [v \in Variants |-> Construct(v, year_arg)]
    /\ \/ date_str \in DateStrings /\ density_in = FromInt(1)
       \/ date_str = ExampleDate /\ density_in \in Densities
    /\ ret = NoCall

\* ------------------------------------------------------------------------
\* Operations

predict_relative_signal_rate(v, self, s) ==
    IF v = "v1" THEN v1_predict_relative_signal_rate(self, s)
    ELSE IF v = "v2" THEN v2_predict_relative_signal_rate(self, s)
    ELSE amp_predict_relative_signal_rate(self, s)

get_relative_density_at_date(v, self, date_obj) ==
    IF v = "v1" THEN v1_get_relative_density_at_date(self, date_obj)
    ELSE IF v = "v2" THEN v2_get_relative_density_at_date(self, date_obj)
    ELSE amp_get_relative_density_at_date(self, date_obj)

get_phase_transition_probability(v, self, density) ==
    IF v = "v1" THEN v1_get_phase_transition_probability(self, density)
    ELSE IF v = "v2" THEN v2_get_phase_transition_probability(self, density)
    ELSE amp_get_phase_transition_probability(self, density)

PredictV1 ==
    /\ ret' = [method  |-> "predict_relative_signal_rate",
               variant |-> "v1",
               value   |-> v1_predict_relative_signal_rate(predictor["v1"], date_str)]
    /\ UNCHANGED <<year_arg, predictor, date_str, density_in>>

\* A faulty call: predict recalibrates the instance to the year of the date
\* it was given.
PredictV2Recalibrating ==
    LET parsed == strptime(date_str)
    IN  /\ ret' = [method  |-> "predict_relative_signal_rate",
                   variant |-> "v2",
                   value   |-> v2_predict_relative_signal_rate(predictor["v2"], date_str)]
        /\ predictor' =
              IF parsed.raised THEN predictor
              ELSE [predictor EXCEPT !["v2"].target_year = Some(parsed.value.year)]
        /\ UNCHANGED <<year_arg, date_str, density_in>>

PredictV2 ==
    /\ ret' = [method  |-> "predict_relative_signal_rate",
               variant |-> "v2",
               value   |-> v2_predict_relative_signal_rate(predictor["v2"], date_str)]
    /\ UNCHANGED <<year_arg, predictor, date_str, density_in>>

PredictAMP ==
    /\ ret' = [method  |-> "predict_relative_signal_rate",
               variant |-> "amp",
               value   |-> amp_predict_relative_signal_rate(predictor["amp"], date_str)]
    /\ UNCHANGED <<year_arg, predictor, date_str, density_in>>

\* A caller parses date_str itself and asks for the density of that date.
DensityAtDate(v) ==
    LET parsed == strptime(date_str)
    IN  /\ ~parsed.raised
        /\ ret' = [method   |-> "get_relative_density_at_date",
                   variant  |-> v,
                   date_obj |-> parsed.value,
                   value    |-> get_relative_density_at_date(
                                    v, predictor[v], parsed.value)]
        /\ UNCHANGED <<year_arg, predictor, date_str, density_in>>

TransitionProbability(v) ==
    /\ ret' = [method  |-> "get_phase_transition_probability",
               variant |-> v,
               density |-> density_in,
               value   |-> get_phase_transition_probability(
                               v, predictor[v], density_in)]
    /\ UNCHANGED <<year_arg, predictor, date_str, density_in>>

Next ==
    \/ PredictV1
    \/ PredictV2
    \/ PredictAMP
    \/ \E v \in Variants : DensityAtDate(v)
    \/ \E v \in Variants : TransitionProbability(v)

Spec == Init /\ [][Next]_vars

\* ------------------------------------------------------------------------
\* Properties

IsPredict == ret.method = "predict_relative_signal_rate"

IsDensity == ret.method = "get_relative_density_at_date"

IsProbability == ret.method = "get_phase_transition_probability"

\* date_str is a calendar date in the form the code parses.
WellFormed == ~strptime(date_str).raised

InputDate == strptime(date_str).value

\* The variants with a calibration year.
WithYear == {"v2", "amp"}

\* The date of a year with the given day-of-year, 1 <= n <= length of the year.
DateOfYday(y, n) ==
    LET m == CHOOSE k \in 1..12 :
                 DaysBeforeMonth(y, k) < n /\ n <= DaysBeforeMonth(y, k) + DaysInMonth(y, k)
    IN  [year |-> y, month |-> m, day |-> n - DaysBeforeMonth(y, m)]

YearLength(y) == IF IsLeap(y) THEN 366 ELSE 365

\* C1: a date string that does not parse makes predict_relative_signal_rate
\* return the tagged error value (key "error") in every variant: never a
\* number, never the warning, never an exception, whatever the target year
\* and whatever the digits of the string.
C1_MalformedDateReturnsError ==
    (IsPredict /\ ~WellFormed) =>
        /\ ret.value.tag = "error"
        /\ ret.value.key = "error"

\* "2025-13-45", a malformed string with the digits of another year, given
\* to the variant calibrated for 2026.
C1_Witness ==
    /\ IsPredict
    /\ ret.variant = "v2"
    /\ year_arg = Some(DefaultYear)
    /\ date_str = <<"2", "0", "2", "5", "-", "1", "3", "-", "4", "5">>
    /\ ret.value.tag = "error"

\* C2: in the variants with a calibration year, a well-formed date of another
\* year than the target year gets the tagged warning value (key "warning"),
\* and no density or transition probability has been computed for it.
C2_YearMismatchReturnsWarning ==
    (/\ IsPredict
     /\ ret.variant \in WithYear
     /\ WellFormed
     /\ NotEqual(InputDate.year, predictor[ret.variant].target_year)) =>
        /\ ret.value.tag = "warning"
        /\ ret.value.key = "warning"
        /\ ret.value.called = <<>>

\* "2025-06-04" given to the variant calibrated for 2026.
C2_Witness ==
    /\ IsPredict
    /\ ret.variant = "v2"
    /\ year_arg = Some(DefaultYear)
    /\ date_str = IsoFormat(DefaultYear - 1, 6, 4)
    /\ ret.value.tag = "warning"

\* C3: with no target year configured (the variant without the check, or a
\* variant constructed with year None) every well-formed date of any year
\* gets a numeric signal rate.
C3_NoYearAlwaysAccepts ==
    (/\ IsPredict
     /\ WellFormed
     /\ \/ ret.variant = "v1"
        \/ ret.variant \in WithYear /\ predictor[ret.variant].target_year = None) =>
        ret.value.tag = "number"

\* C4 as stated: the transition probability lies in [0, 1) for every
\* density, and the signal rate in [1.0, 101.0), the upper bounds never
\* reached.
C4_ProbabilityBelowOne ==
    /\ IsProbability => (0 <= ret.value /\ ret.value < FromInt(1))
    /\ (IsPredict /\ ret.value.tag = "number") =>
          (FromInt(1) <= ret.value.rate /\ ret.value.rate < FromInt(101))

\* C4 amended: the transition probability lies in [0, 1], under 1 for every
\* density up to the enhancement factor (all that a date can give), so the
\* signal rate 1.0 + 100 * probability lies in [1.0, 101.0) for every
\* accepted date and in [1.0, 101.0] for every density.
C4_ProbabilityAtMostOne ==
    /\ IsProbability =>
          /\ 0 <= ret.value
          /\ ret.value <= FromInt(1)
          /\ FromInt(1) + 100 * ret.value <= FromInt(101)
          /\ ret.density <= predictor[ret.variant].density_enhancement_factor
                => ret.value < FromInt(1)
    /\ (IsPredict /\ ret.value.tag = "number") =>
          /\ ret.value.rate = FromInt(1) + 100 * ret.value.transition_prob
          /\ FromInt(1) <= ret.value.rate
          /\ ret.value.rate < FromInt(101)

\* A density at which tanh has saturated: the probability is exactly 1.0.
C4_Witness ==
    /\ IsProbability
    /\ ret.density = FromInt(50)
    /\ ret.value = FromInt(1)

\* C5: the transition probability is exactly 0 below the critical density
\* and at it, and does not jump right after it (one unit of the grid above,
\* it is at most one unit); an accepted date whose density is at or below
\* the critical density gets the signal rate 1.0 exactly.
C5_ZeroUpToThreshold ==
    /\ IsProbability =>
          /\ ret.density <= predictor[ret.variant].rho_crit_normalized
                => ret.value = 0
          /\ ret.density = predictor[ret.variant].rho_crit_normalized + 1
                => ret.value \in {0, 1}
    /\ (/\ IsPredict
        /\ ret.value.tag = "number"
        /\ ret.value.local_density <= predictor[ret.variant].rho_crit_normalized) =>
          /\ ret.value.transition_prob = 0
          /\ ret.value.rate = FromInt(1)

\* The probability asked for the critical density itself.
C5_Witness ==
    /\ IsProbability
    /\ ret.density = predictor[ret.variant].rho_crit_normalized
    /\ ret.value = 0

\* Two results are the same outcome: the same variant of number, warning
\* and error, and the same rate when numbers.
SameOutcome(a, b) ==
    /\ a.tag = b.tag
    /\ a.tag = "number" => a.rate = b.rate

\* C6: on every date string ddic_amp_v2 and AMP_2026_Predictor, built with
\* the same year, return the same outcome and the same rate; ddic_amp_v1
\* returns the error for exactly the strings they return it for, and their
\* rate for every well-formed date of their target year.
C6_VariantsAgree ==
    IsPredict =>
        LET r1 == v1_predict_relative_signal_rate(predictor["v1"], date_str)
            r2 == v2_predict_relative_signal_rate(predictor["v2"], date_str)
            ra == amp_predict_relative_signal_rate(predictor["amp"], date_str)
            agrees(r, w) ==
                /\ (r.tag = "error") <=> (w.tag = "error")
                /\ (WellFormed /\ Some(InputDate.year) = year_arg) =>
                      SameOutcome(r, w) /\ r.tag = "number"
        IN  /\ ret.variant = "v2"  => SameOutcome(ret.value, ra) /\ agrees(r1, ret.value)
            /\ ret.variant = "amp" => SameOutcome(ret.value, r2) /\ agrees(r1, ret.value)
            /\ ret.variant = "v1"  => agrees(ret.value, r2) /\ agrees(ret.value, ra)

\* ddic_amp_v1 computing a rate for a date of the year the other two are
\* calibrated for.
C6_Witness ==
    /\ IsPredict
    /\ ret.variant = "v1"
    /\ year_arg = Some(DefaultYear - 1)
    /\ date_str = IsoFormat(DefaultYear - 1, 6, 4)
    /\ ret.value.tag = "number"

\* What the last call would have returned on freshly constructed instances.
OnFresh(r) ==
    LET fresh == Construct(r.variant, year_arg)
    IN  IF r.method = "predict_relative_signal_rate"
        THEN predict_relative_signal_rate(r.variant, fresh, date_str)
        ELSE IF r.method = "get_relative_density_at_date"
        THEN get_relative_density_at_date(r.variant, fresh, r.date_obj)
        ELSE get_phase_transition_probability(r.variant, fresh, r.density)

\* C7: no call changes an evaluator's stored parameters, whatever it
\* returns, and every call returns what it would on a fresh evaluator.
C7_CallsChangeNothing ==
    [][/\ predictor' = predictor
       /\ ret'.method # "none" => ret'.value = OnFresh(ret')]_vars

\* A call that returned the warning, with the instances as constructed.
C7_Witness ==
    /\ IsPredict
    /\ ret.value.tag = "warning"
    /\ predictor = [v \in Variants |-> Construct(v, year_arg)]

\* C8: on the peak day the relative density is exactly the enhancement
\* factor; on every other day it is under it and at least 1.
C8_DensityPeak ==
    IsDensity =>
        LET self == predictor[ret.variant]
        IN  IF tm_yday(ret.date_obj) = self.filament_peak_day_of_year
            THEN ret.value = self.density_enhancement_factor
            ELSE /\ ret.value < self.density_enhancement_factor
                 /\ ret.value >= FromInt(1)

\* The density asked for day 155 of the year.
C8_Witness ==
    /\ IsDensity
    /\ tm_yday(ret.date_obj) = 155
    /\ ret.value = Literal(85, 10)

\* C9: the dates k days before and k days after the peak, both in the same
\* year, have the same relative density and the same signal rate.
C9_DensitySymmetric ==
    /\ IsDensity =>
          LET self   == predictor[ret.variant]
              y      == ret.date_obj.year
              mirror == 2 * self.filament_peak_day_of_year - tm_yday(ret.date_obj)
          IN  (1 <= mirror /\ mirror <= YearLength(y)) =>
                 get_relative_density_at_date(ret.variant, self, DateOfYday(y, mirror))
                    = ret.value
    /\ (IsPredict /\ ret.value.tag = "number") =>
          LET self   == predictor[ret.variant]
              y      == InputDate.year
              mirror == 2 * self.filament_peak_day_of_year - tm_yday(InputDate)
              other  == DateOfYday(y, mirror)
          IN  (1 <= mirror /\ mirror <= YearLength(y)) =>
                 SameOutcome(
                    predict_relative_signal_rate(
                        ret.variant, self, IsoFormat(y, other.month, other.day)),
                    ret.value)

\* The density asked for the day ten days after the peak.
C9_Witness ==
    /\ IsDensity
    /\ tm_yday(ret.date_obj) = 165
    /\ ret.value > FromInt(1)

\* C10: a date accepted for numeric computation has the peak density (the
\* enhancement factor) if and only if it is June 4, in every year.
C10_PeakIsJune4 ==
    (IsPredict /\ ret.value.tag = "number") =>
        (ret.value.local_density = predictor[ret.variant].density_enhancement_factor
            <=> (InputDate.month = 6 /\ InputDate.day = 4))

====
